---------------------------- MODULE Spec2Model ----------------------------
(***************************************************************************)
(* A model of snips-sh (src/src/index.ts): the SSH upload client of        *)
(* snips.sh.  Text is a sequence of characters, each character a string    *)
(* of length one; the two escape introducers U+001B and U+009B are the     *)
(* tokens "ESC" and "CSI".  A channel chunk is a sequence of bytes: an     *)
(* ASCII byte is written as its character, any other byte as "xHH".        *)
(* A JavaScript "string | null" is an option: <<>> is null, <<v>> is v.    *)
(***************************************************************************)
EXTENDS Integers, Sequences, FiniteSets, TLC

null == <<>>

Some(v) == <<v>>

Min(S) == CHOOSE m \in S : \A n \in S : m <= n

(***************************************************************************)
(* Character classes of the regular expressions.                           *)
(***************************************************************************)
Digit == {"0", "1", "2", "3", "4", "5", "6", "7", "8", "9"}

Upper == {"A", "B", "C", "D", "E", "F", "G", "H", "I", "J", "K", "L", "M",
          "N", "O", "P", "Q", "R", "S", "T", "U", "V", "W", "X", "Y", "Z"}

Lower == {"a", "b", "c", "d", "e", "f", "g", "h", "i", "j", "k", "l", "m",
          "n", "o", "p", "q", "r", "s", "t", "u", "v", "w", "x", "y", "z"}

\* [\u001b\u009b]
Introducer == {"ESC", "CSI"}

\* [[()#;?]
Marker == {"[", "(", ")", "#", ";", "?"}

\* [0-9A-ORZcf-nqry=><]
FinalByte == Digit
             \cup {"A", "B", "C", "D", "E", "F", "G", "H", "I", "J", "K",
                   "L", "M", "N", "O", "R", "Z"}
             \cup {"c", "f", "g", "h", "i", "j", "k", "l", "m", "n", "q",
                   "r", "y", "=", ">", "<"}

\* [A-Za-z0-9_-]
IdChar == Upper \cup Lower \cup Digit \cup {"_", "-"}

\* \s of JavaScript, as far as the model's alphabet holds it
WhiteSpace == {" ", "\n", "\t", "\r"}

\* what . does not match
LineTerminator == {"\n", "\r"}

(***************************************************************************)
(* RunLen(s, j, class, max): how many characters of class follow one       *)
(* another in s from position j on, at most max (a greedy quantifier).     *)
(***************************************************************************)
RunLen(s, j, class, max) ==
  Min({max} \cup {n \in 0..max : j + n > Len(s) \/ s[j + n] \notin class})

\* the character at position j of s is in class
At(s, j, class) == j <= Len(s) /\ s[j] \in class

(***************************************************************************)
(* ANSI_CODE_PATTERN, matched as a backtracking engine matches it: each    *)
(* operator returns the position after the preferred match that starts at  *)
(* the given position, or 0 when there is none.                            *)
(***************************************************************************)
\* [0-9A-ORZcf-nqry=><]
MatchFinal(s, j) == IF At(s, j, FinalByte) THEN j + 1 ELSE 0

RECURSIVE MatchGroups(_, _)
RECURSIVE TryGroup(_, _, _)

\* (?:;[0-9]{0,4})* and the final byte; greedy: one more group is tried first
MatchGroups(s, j) ==
  LET more == IF At(s, j, {";"})
              THEN TryGroup(s, j + 1, RunLen(s, j + 1, Digit, 4))
              ELSE 0
  IN  IF more # 0 THEN more ELSE MatchFinal(s, j)

\* [0-9]{0,4} of a group that starts at j, tried with e digits, then fewer
TryGroup(s, j, e) ==
  IF e < 0
  THEN 0
  ELSE LET r == MatchGroups(s, j + e)
       IN  IF r # 0 THEN r ELSE TryGroup(s, j, e - 1)

RECURSIVE TryNumber(_, _, _)
\* [0-9]{1,4} at j, tried with d digits, then fewer; then the groups
TryNumber(s, j, d) ==
  IF d < 1
  THEN 0
  ELSE LET r == MatchGroups(s, j + d)
       IN  IF r # 0 THEN r ELSE TryNumber(s, j, d - 1)

\* (?:[0-9]{1,4}(?:;[0-9]{0,4})*)? and the final byte
MatchParams(s, j) ==
  LET with == TryNumber(s, j, RunLen(s, j, Digit, 4))
  IN  IF with # 0 THEN with ELSE MatchFinal(s, j)

RECURSIVE TryMarkers(_, _, _)
\* [[()#;?]* at j, tried with k markers, then fewer
TryMarkers(s, j, k) ==
  IF k < 0
  THEN 0
  ELSE LET r == MatchParams(s, j + k)
       IN  IF r # 0 THEN r ELSE TryMarkers(s, j, k - 1)

\* the whole pattern at position i
MatchAnsi(s, i) ==
  IF At(s, i, Introducer)
  THEN TryMarkers(s, i + 1, RunLen(s, i + 1, Marker, Len(s)))
  ELSE 0

(***************************************************************************)
(* str.replace(/.../g, ""): the text is scanned left to right; a match is  *)
(* dropped and the scan goes on after it, any other character is kept.     *)
(* Replace(s, a, b) scans the positions a..b, a being a position the scan  *)
(* stands on: out is what the scan keeps, next the position it stands on   *)
(* after b (a match that starts in a..b may end beyond b).  The range is   *)
(* halved so that the evaluation nests only as deep as log(b - a).         *)
(***************************************************************************)
RECURSIVE Replace(_, _, _)
Replace(s, a, b) ==
  IF a > b THEN [out |-> <<>>, next |-> a]
  ELSE IF a = b
  THEN LET e == MatchAnsi(s, a)
       IN  IF e # 0
           THEN [out |-> <<>>, next |-> e]
           ELSE [out |-> <<s[a]>>, next |-> a + 1]
  ELSE LET left == Replace(s, a, (a + b) \div 2)
           right == Replace(s, left.next, b)
       IN  [out |-> left.out \o right.out, next |-> right.next]

stripAnsi(str) == Replace(str, 1, Len(str)).out

(***************************************************************************)
(* The six extractions.                                                     *)
(***************************************************************************)
\* the literal lit stands in s at position i
LitAt(s, lit, i) ==
  /\ i + Len(lit) - 1 <= Len(s)
  /\ \A k \in 1..Len(lit) : s[i + k - 1] = lit[k]

\* the text of s from position a, n characters long
Slice(s, a, n) == SubSeq(s, a, a + n - 1)

\* /id: ([A-Za-z0-9_-]{10})/
extractId(str) ==
  LET lit == <<"i", "d", ":", " ">>
      M == {i \in 1..Len(str) :
              LitAt(str, lit, i) /\ RunLen(str, i + 4, IdChar, 10) = 10}
  IN  IF M = {} THEN null ELSE Some(Slice(str, Min(M) + 4, 10))

RECURSIVE parseInt(_)
\* parseInt of a run of decimal digits
parseInt(ds) ==
  IF ds = <<>>
  THEN 0
  ELSE 10 * parseInt(SubSeq(ds, 1, Len(ds) - 1))
       + (CHOOSE v \in 0..9 :
            <<"0", "1", "2", "3", "4", "5", "6", "7", "8", "9">>[v + 1]
              = ds[Len(ds)])

\* /size: ([0-9]+) ([A-Z]{1})/
extractSize(str) ==
  LET lit == <<"s", "i", "z", "e", ":", " ">>
      n(i) == RunLen(str, i + 6, Digit, Len(str))
      M == {i \in 1..Len(str) :
              /\ LitAt(str, lit, i)
              /\ n(i) >= 1
              /\ At(str, i + 6 + n(i), {" "})
              /\ At(str, i + 7 + n(i), Upper)}
      i0 == Min(M)
  IN  IF M = {}
      THEN [value |-> null, unit |-> null]
      ELSE [value |-> Some(parseInt(Slice(str, i0 + 6, n(i0)))),
            unit |-> Some(<<str[i0 + 7 + n(i0)]>>)]

\* /<label>: ([a-z]+)/ for the labels "type" and "visibility"
extractLower(str, lit) ==
  LET M == {i \in 1..Len(str) :
              LitAt(str, lit, i) /\ At(str, i + Len(lit), Lower)}
      a == Min(M) + Len(lit)
  IN  IF M = {}
      THEN null
      ELSE Some(Slice(str, a, RunLen(str, a, Lower, Len(str))))

extractType(str) == extractLower(str, <<"t", "y", "p", "e", ":", " ">>)

extractVisibility(str) ==
  extractLower(str, <<"v", "i", "s", "i", "b", "i", "l", "i", "t", "y",
                      ":", " ">>)

\* the characters of s from position j up to the first one in stop
RunUntil(s, j, stop) ==
  Min({n \in 0..Len(s) : j + n > Len(s) \/ s[j + n] \in stop})

\* /ssh (.+)/
extractSsh(str) ==
  LET lit == <<"s", "s", "h", " ">>
      M == {i \in 1..Len(str) :
              LitAt(str, lit, i) /\ RunUntil(str, i + 4, LineTerminator) >= 1}
      a == Min(M) + 4
  IN  IF M = {}
      THEN null
      ELSE Some(Slice(str, a, RunUntil(str, a, LineTerminator)))

\* a slip: the last match in the place of the first
extractUrlLast(str) ==
  LET http == <<"h", "t", "t", "p", ":", "/", "/">>
      https == <<"h", "t", "t", "p", "s", ":", "/", "/">>
      \* the length of the scheme matched at i, 0 when none is
      scheme(i) == IF LitAt(str, https, i) THEN 8
                   ELSE IF LitAt(str, http, i) THEN 7 ELSE 0
      M == {i \in 1..Len(str) :
              scheme(i) # 0 /\ RunUntil(str, i + scheme(i), WhiteSpace) >= 1}
      i0 == CHOOSE i \in M : \A j \in M : j <= i
  IN  IF M = {}
      THEN null
      ELSE Some(Slice(str, i0,
                      scheme(i0) + RunUntil(str, i0 + scheme(i0), WhiteSpace)))

\* /https?:\/\/[^\s]+/
extractUrl(str) ==
  LET http == <<"h", "t", "t", "p", ":", "/", "/">>
      https == <<"h", "t", "t", "p", "s", ":", "/", "/">>
      \* the length of the scheme matched at i, 0 when none is
      scheme(i) == IF LitAt(str, https, i) THEN 8
                   ELSE IF LitAt(str, http, i) THEN 7 ELSE 0
      M == {i \in 1..Len(str) :
              scheme(i) # 0 /\ RunUntil(str, i + scheme(i), WhiteSpace) >= 1}
      i0 == Min(M)
  IN  IF M = {}
      THEN null
      ELSE Some(Slice(str, i0,
                      scheme(i0) + RunUntil(str, i0 + scheme(i0), WhiteSpace)))

(***************************************************************************)
(* What the service sends: the transcript of the repository's test, cut    *)
(* into chunks.  The first chunk ends inside the three bytes of a box      *)
(* drawing glyph, as a network read may.  The state holds a chunk (a       *)
(* Buffer) by its name; Bytes gives the bytes in it.                       *)
(***************************************************************************)
HeadPublic ==
  <<"ESC", "[", "3", "8", ";", "5", ";", "7", "2", "m", "xE2", "x94",
     "x83", "ESC", "[", "0", "m", " ", "ESC", "[", "9", "0", "m", "i",
     "d", ":", " ", "ESC", "[", "3", "7", "m", "d", "F", "O", "P", "G",
     "g", "A", "E", "n", "Z", "ESC", "[", "0", "m", "\n", "xE2", "x94",
     "x83", " ", "s", "i", "z", "e", ":", " ", "ESC", "[", "3", "7", "m",
     "6", "3", " ", "B", "ESC", "[", "0", "m", " ", "xE2", "x80", "xA2",
     " ", "t", "y", "p", "e", ":", " ", "p", "l", "a", "i", "n", "t", "e",
     "x", "t", " ", "xE2", "x80", "xA2", " ", "v", "i", "s", "i", "b",
     "i", "l", "i", "t", "y", ":", " ", "ESC", "[", "3", "7", "m", "p",
     "u", "b", "l", "i", "c", "ESC", "[", "0", "m", "\n", "xE2", "x94",
     "x83", " ", "s", "s", "h", " ", "f", ":", "d", "F", "O", "P", "G",
     "g", "A", "E", "n", "Z", "@", "s", "n", "i", "p", "s", ".", "s", "h",
     "\n", "xE2">>

HeadPrivate ==
  <<"ESC", "[", "3", "8", ";", "5", ";", "7", "2", "m", "xE2", "x94",
     "x83", "ESC", "[", "0", "m", " ", "ESC", "[", "9", "0", "m", "i",
     "d", ":", " ", "ESC", "[", "3", "7", "m", "d", "F", "O", "P", "G",
     "g", "A", "E", "n", "Z", "ESC", "[", "0", "m", "\n", "xE2", "x94",
     "x83", " ", "s", "i", "z", "e", ":", " ", "ESC", "[", "3", "7", "m",
     "6", "3", " ", "B", "ESC", "[", "0", "m", " ", "xE2", "x80", "xA2",
     " ", "t", "y", "p", "e", ":", " ", "p", "l", "a", "i", "n", "t", "e",
     "x", "t", " ", "xE2", "x80", "xA2", " ", "v", "i", "s", "i", "b",
     "i", "l", "i", "t", "y", ":", " ", "ESC", "[", "3", "7", "m", "p",
     "r", "i", "v", "a", "t", "e", "ESC", "[", "0", "m", "\n", "xE2",
     "x94", "x83", " ", "s", "s", "h", " ", "f", ":", "d", "F", "O", "P",
     "G", "g", "A", "E", "n", "Z", "@", "s", "n", "i", "p", "s", ".", "s",
     "h", "\n", "xE2">>

UrlLine ==
  <<"x94", "x83", " ", "ESC", "[", "4", ";", "3", "8", ";", "5", ";",
     "7", "5", ";", "4", "m", "h", "t", "t", "p", "s", ":", "/", "/", "s",
     "n", "i", "p", "s", ".", "s", "h", "/", "f", "/", "d", "F", "O", "P",
     "G", "g", "A", "E", "n", "Z", "ESC", "[", "0", "m", "\n">>

ChunkPool == {"HeadPublic", "HeadPrivate", "UrlLine"}

Bytes(chunk) ==
  IF chunk = "HeadPublic" THEN HeadPublic
  ELSE IF chunk = "HeadPrivate" THEN HeadPrivate
  ELSE UrlLine

(***************************************************************************)
(* chunk.toString("utf8"): UTF-8 decoding of one chunk on its own.  A      *)
(* sequence cut short by the end of the chunk, and a continuation byte     *)
(* with no lead byte before it, decode to U+FFFD.                          *)
(***************************************************************************)
Lead2 == {"xC2"}

Lead3 == {"xE2"}

Continuation == {"x80", "x83", "x94", "x9B", "xA2"}

Replacement == "U+FFFD"

\* the character a well-formed byte sequence encodes; C2 9B is U+009B
CodePoint(bs) ==
  IF bs = <<"xC2", "x9B">>
  THEN "CSI"
  ELSE IF Len(bs) = 2 THEN bs[1] \o bs[2] ELSE bs[1] \o bs[2] \o bs[3]

\* the character decoded at position i of b, and the position after it
DecodeAt(b, i) ==
  IF b[i] \in Lead2
  THEN IF At(b, i + 1, Continuation)
       THEN [out |-> <<CodePoint(<<b[i], b[i + 1]>>)>>, next |-> i + 2]
       ELSE [out |-> <<Replacement>>, next |-> i + 1]
  ELSE IF b[i] \in Lead3
  THEN IF At(b, i + 1, Continuation)
       THEN IF At(b, i + 2, Continuation)
            THEN [out |-> <<CodePoint(<<b[i], b[i + 1], b[i + 2]>>)>>,
                  next |-> i + 3]
            ELSE [out |-> <<Replacement>>, next |-> i + 2]
       ELSE [out |-> <<Replacement>>, next |-> i + 1]
  ELSE IF b[i] \in Continuation
  THEN [out |-> <<Replacement>>, next |-> i + 1]
  ELSE [out |-> <<b[i]>>, next |-> i + 1]

\* the decoding of the positions a..b of the chunk, halved as Replace is
RECURSIVE Decode(_, _, _)
Decode(b, lo, hi) ==
  IF lo > hi THEN [out |-> <<>>, next |-> lo]
  ELSE IF lo = hi THEN DecodeAt(b, lo)
  ELSE LET left == Decode(b, lo, (lo + hi) \div 2)
           right == Decode(b, left.next, hi)
       IN  [out |-> left.out \o right.out, next |-> right.next]

toString(chunk) == Decode(Bytes(chunk), 1, Len(Bytes(chunk))).out

RECURSIVE JoinChunks(_)
\* data.map((chunk) => chunk.toString("utf8")).join("")
JoinChunks(data) ==
  IF data = <<>>
  THEN <<>>
  ELSE toString(Head(data)) \o JoinChunks(Tail(data))

RECURSIVE JoinSpace(_)
\* command.join(" ")
JoinSpace(command) ==
  IF command = <<>> THEN ""
  ELSE IF Len(command) = 1 THEN command[1]
  ELSE command[1] \o " " \o JoinSpace(Tail(command))

(***************************************************************************)
(* Bounds of the model.                                                    *)
(***************************************************************************)
\* calls of setup and upload made on the one Snips instance
MaxCalls == 2

\* calls of sign made on the Snips that the uploads returned
MaxSigns == 1

\* chunks a channel delivers before it closes
MaxChunks == 2

\* sessions open at a time: generateKeyPair completes, and the caller makes
\* a call that connects at once, only while fewer than MaxLive calls hold a
\* session that they have not settled on yet
MaxLive == 1

Contents == {"Hello!"}

(***************************************************************************)
(* The validation of upload.  invariant(condition, message) throws         *)
(* Error(message) when condition is falsy: null, "" and 0 are.             *)
(***************************************************************************)
\* invariant(condition, message), then the statements after it: message is
\* thrown when condition is falsy
invariant(condition, message, then) ==
  IF condition THEN then ELSE [snip |-> null, error |-> message]

truthyString(v) == v # null /\ v[1] # <<>>

truthyNumber(v) == v # null /\ v[1] # 0

public == <<"p", "u", "b", "l", "i", "c">>

private == <<"p", "r", "i", "v", "a", "t", "e">>

\* a slip: a URL asks for a public snip, and no URL asks for nothing
urlImpliesPublic(url, visibility) ==
  truthyString(url) => visibility = Some(public)

\* the cross condition of upload on url and visibility
urlMatchesVisibility(url, visibility) ==
  \/ truthyString(url) /\ visibility = Some(public)
  \/ ~truthyString(url) /\ visibility = Some(private)

\* new Snip(id, { unit, value }, type, visibility, ssh, url, clientOptions)
Snip(id, size, type, visibility, ssh, url) ==
  [id |-> id, size |-> size, type |-> type, visibility |-> visibility,
   ssh |-> ssh, url |-> url]

\* a slip: the size is checked before the id
parseSizeFirst(response) ==
  LET sanitizedResponse == stripAnsi(response)
      id == extractId(sanitizedResponse)
      size == extractSize(sanitizedResponse)
      type == extractType(sanitizedResponse)
      visibility == extractVisibility(sanitizedResponse)
      ssh == extractSsh(sanitizedResponse)
      url == extractUrl(sanitizedResponse)
  IN  invariant(truthyNumber(size.value) /\ truthyString(size.unit),
        "Failed to extract size from response",
      invariant(truthyString(id),
        "Failed to extract ID from response",
      invariant(truthyString(type),
        "Failed to extract type from response",
      invariant(visibility = Some(public) \/ visibility = Some(private),
        "Failed to extract visibility from response",
      invariant(truthyString(ssh),
        "Failed to extract SSH host from response",
      invariant(urlMatchesVisibility(url, visibility),
        IF truthyString(url)
        THEN "Visibility is private but found URL"
        ELSE "Visibility is public but didn't find URL",
      [snip |-> Some(Snip(id, size, type, visibility, ssh, url)),
       error |-> ""]))))))

\* upload from stripAnsi on: the Snip returned, or the message thrown
parse(response) ==
  LET sanitizedResponse == stripAnsi(response)
      id == extractId(sanitizedResponse)
      size == extractSize(sanitizedResponse)
      type == extractType(sanitizedResponse)
      visibility == extractVisibility(sanitizedResponse)
      ssh == extractSsh(sanitizedResponse)
      url == extractUrl(sanitizedResponse)
  IN  invariant(truthyString(id),
        "Failed to extract ID from response",
      invariant(truthyNumber(size.value) /\ truthyString(size.unit),
        "Failed to extract size from response",
      invariant(truthyString(type),
        "Failed to extract type from response",
      invariant(visibility = Some(public) \/ visibility = Some(private),
        "Failed to extract visibility from response",
      invariant(truthyString(ssh),
        "Failed to extract SSH host from response",
      invariant(urlMatchesVisibility(url, visibility),
        IF truthyString(url)
        THEN "Visibility is private but found URL"
        ELSE "Visibility is public but didn't find URL",
      [snip |-> Some(Snip(id, size, type, visibility, ssh, url)),
       error |-> ""]))))))

(***************************************************************************)
(* Every transcript a channel of the model can deliver, with what upload   *)
(* makes of it: parse, worked out once for each.                           *)
(***************************************************************************)
Histories == UNION {[1..n -> ChunkPool] : n \in 0..MaxChunks}

Transcripts == {JoinChunks(h) : h \in Histories}

parsed == [response \in Transcripts |-> parse(response)]

(***************************************************************************)
(* Promises, as new Promise((resolve, reject) => ...) makes them: the      *)
(* first resolve or reject settles the promise, every later one is void.   *)
(***************************************************************************)
Pending == [state |-> "pending", value |-> <<>>, reason |-> ""]

resolve(p, v) ==
  IF p.state = "pending"
  THEN [state |-> "fulfilled", value |-> v, reason |-> ""]
  ELSE p

reject(p, r) ==
  IF p.state = "pending"
  THEN [state |-> "rejected", value |-> <<>>, reason |-> r]
  ELSE p

VARIABLES
  clientOptions,  \* this.clientOptions of the Snips instance
  calls,          \* the calls made on the instance, each with its position
  clients,        \* the ssh2 Clients made by connectClient, in order
  uncaught,       \* an 'error' event was emitted with no listener for it
  input,          \* the text given to stripAnsi
  outputs         \* what repeated stripAnsi made of it

vars == <<clientOptions, calls, clients, uncaught, input, outputs>>

(***************************************************************************)
(* connectClient: a new Client with its four listeners and the promise     *)
(* they settle.                                                            *)
(***************************************************************************)
Events == {"error", "ready", "end", "close"}

NewClient(config) ==
  [config |-> config,
   listeners |-> Events,     \* the events connectClient's listeners are on
   promise |-> Pending,      \* the promise connectClient returns
   phase |-> "connecting",   \* connecting, ready, ended or closed
   errored |-> FALSE,
   emitted |-> <<>>,         \* the events emitted so far, in order
   ran |-> <<>>,             \* the listeners of connectClient run so far
   swallowed |-> FALSE,      \* error, end or close came while the channel was in use
   destroyed |-> FALSE,      \* client.destroy() was called
   chan |-> "none",          \* none, requested, open, closed or refused
   command |-> "",           \* the command line given to exec
   stdin |-> null,           \* what channel.end(content) wrote
   data |-> <<>>,            \* the chunks pushed by the data listener
   arrived |-> <<>>,         \* the chunks the channel emitted, in order
   exec |-> Pending]         \* the promise writeWithCommand returns

\* a slip: resolve in the place of reject
onErrorResolves(cl) == [cl EXCEPT !.promise = resolve(@, <<"client">>)]

\* client.on("error", reject)
onError(cl) == [cl EXCEPT !.promise = reject(@, "error")]

\* a slip: the error listener is left registered
onReadyKeepsListener(cl) == [cl EXCEPT !.promise = resolve(@, <<"client">>)]

\* client.on("ready", () => { client.removeListener("error", reject); resolve(client) })
onReady(cl) ==
  [cl EXCEPT !.listeners = @ \ {"error"},
             !.promise = resolve(@, <<"client">>)]

\* a slip: 'end' has a listener that does nothing
onEndIgnored(cl) == cl

\* client.on("end", () => reject(new Error("Client ended unexpectedly")))
onEnd(cl) == [cl EXCEPT !.promise = reject(@, "Client ended unexpectedly")]

\* client.on("close", () => reject(new Error("Client closed unexpectedly")))
onClose(cl) == [cl EXCEPT !.promise = reject(@, "Client closed unexpectedly")]

\* the client emits event e: the listener registered for it, if any, runs
Emit(cl, e) ==
  LET seen == [cl EXCEPT !.emitted = Append(@, e),
                         !.swallowed = @ \/ (e # "ready"
                                             /\ cl.chan \in {"requested", "open"})]
      run == [seen EXCEPT !.ran = Append(@, e)]
  IN  IF e \notin cl.listeners THEN seen
      ELSE IF e = "error" THEN onError(run)
      ELSE IF e = "ready" THEN onReady(run)
      ELSE IF e = "end" THEN onEnd(run)
      ELSE onClose(run)

(***************************************************************************)
(* The calls.  A call is at "generating" (awaiting generateKeyPair),       *)
(* "connecting" (awaiting connectClient), "execing" (awaiting              *)
(* writeWithCommand), or settled: "returned" or "threw".                   *)
(***************************************************************************)
NewCall(kind, pc, isPrivate, content, of, client) ==
  [kind |-> kind, pc |-> pc, isPrivate |-> isPrivate, content |-> content,
   of |-> of,             \* sign: the call whose Snip is signed
   client |-> client,     \* the Client of the call, 0 before it has one
   snip |-> null, error |-> "", text |-> <<>>]

Settled(c) == calls[c].pc \in {"returned", "threw"}

\* the calls made so far of the given kinds
Made(kinds) == Cardinality({c \in 1..Len(calls) : calls[c].kind \in kinds})

\* a session may be opened now
MayConnect ==
  Cardinality({c \in 1..Len(calls) :
                 calls[c].pc \in {"connecting", "execing"}}) < MaxLive

\* the key the n-th call's generateKeyPair makes, as PEM text
Pem(n) == "pem" \o ToString(n)

\* !this.clientOptions.privateKey
keyUnset == clientOptions.privateKey = "undefined"

\* a slip: the session made last is used again
ConnectShared(cs, config) ==
  /\ clients' = IF clients = <<>>
                THEN <<NewClient(config)>>
                ELSE [clients EXCEPT ![Len(clients)] = NewClient(config)]
  /\ calls' = [cs EXCEPT ![Len(cs)].pc = "connecting",
                         ![Len(cs)].client = IF clients = <<>> THEN 1
                                             ELSE Len(clients)]

\* the call just made connects: a Client more, and the call awaits it
Connect(cs, config) ==
  /\ clients' = Append(clients, NewClient(config))
  /\ calls' = [cs EXCEPT ![Len(cs)].pc = "connecting",
                         ![Len(cs)].client = Len(clients) + 1]

\* setup(), up to its await or its return
CallSetup ==
  /\ ~uncaught
  /\ Made({"setup", "upload"}) < MaxCalls
  /\ calls' = Append(calls,
       NewCall("setup", IF keyUnset THEN "generating" ELSE "returned",
               FALSE, "", 0, 0))
  /\ UNCHANGED <<clientOptions, clients, uncaught, input, outputs>>

\* upload(content, { isPrivate }), up to its first suspension
CallUpload(content, isPrivate) ==
  /\ ~uncaught
  /\ Made({"setup", "upload"}) < MaxCalls
  /\ LET call == NewCall("upload", "generating", isPrivate, content, 0, 0)
     IN  IF keyUnset
         THEN calls' = Append(calls, call) /\ UNCHANGED clients
         ELSE MayConnect /\ Connect(Append(calls, call), clientOptions)
  /\ UNCHANGED <<clientOptions, uncaught, input, outputs>>

\* generateKeyPair of call c completes: setup stores the key and returns,
\* and an upload goes on to connect
KeyGenerated(c) ==
  /\ ~uncaught
  /\ calls[c].pc = "generating"
  /\ clientOptions' = [clientOptions EXCEPT !.privateKey = Pem(c)]
  /\ IF calls[c].kind = "setup"
     THEN calls' = [calls EXCEPT ![c].pc = "returned"] /\ UNCHANGED clients
     ELSE /\ MayConnect
          /\ clients' = Append(clients, NewClient(clientOptions'))
          /\ calls' = [calls EXCEPT ![c].pc = "connecting",
                                    ![c].client = Len(clients) + 1]
  /\ UNCHANGED <<uncaught, input, outputs>>

\* a slip: the username is written into the config of the instance
CallSignRenames(u) ==
  /\ ~uncaught
  /\ Made({"sign"}) < MaxSigns
  /\ calls[u].kind = "upload" /\ calls[u].pc = "returned"
  /\ MayConnect
  /\ clientOptions' = [clientOptions EXCEPT
                         !.username = <<"f", ":">> \o calls[u].snip[1].id[1]]
  /\ Connect(Append(calls, NewCall("sign", "connecting", FALSE, "", u, 0)),
             clientOptions')
  /\ UNCHANGED <<uncaught, input, outputs>>

\* snip.sign() on the Snip call u returned, up to its first suspension
CallSign(u) ==
  /\ ~uncaught
  /\ Made({"sign"}) < MaxSigns
  /\ calls[u].kind = "upload" /\ calls[u].pc = "returned"
  /\ MayConnect
  /\ Connect(Append(calls, NewCall("sign", "connecting", FALSE, "", u, 0)),
             [clientOptions EXCEPT
                !.username = <<"f", ":">> \o calls[u].snip[1].id[1]])
  /\ UNCHANGED <<clientOptions, uncaught, input, outputs>>

(***************************************************************************)
(* The session of call c, as ssh2 drives it: 'ready' comes while the       *)
(* session connects, 'error' and 'end' before the session has ended, and   *)
(* 'close' last.  When the call settles, its frame is gone and the model   *)
(* follows its Client no further: Retire keeps of the Client what the      *)
(* call leaves behind (the config, command and input it was given, the     *)
(* state of its channel, whether it was destroyed).                        *)
(***************************************************************************)
Retire(cl) ==
  [NewClient(cl.config) EXCEPT
     !.phase = "retired", !.listeners = {}, !.destroyed = cl.destroyed,
     !.chan = cl.chan, !.command = cl.command, !.stdin = cl.stdin]

Live(c) ==
  /\ ~uncaught
  /\ c \in 1..Len(calls)
  /\ calls[c].pc \in {"connecting", "execing"}

EmitOn(c, e) ==
  LET s == calls[c].client
  IN  /\ clients' = [clients EXCEPT ![s] =
           [Emit(@, e) EXCEPT
              !.phase = IF e = "error" THEN @
                        ELSE IF e = "end" THEN "ended"
                        ELSE IF e = "close" THEN "closed" ELSE "ready",
              !.errored = @ \/ e = "error"]]
      \* an 'error' event nobody listens to is thrown
      /\ uncaught' = (e = "error" /\ "error" \notin clients[s].listeners)
      /\ UNCHANGED <<clientOptions, calls, input, outputs>>

EmitReady(c) ==
  /\ Live(c)
  /\ clients[calls[c].client].phase = "connecting"
  /\ EmitOn(c, "ready")

EmitError(c) ==
  /\ Live(c)
  /\ clients[calls[c].client].phase \in {"connecting", "ready"}
  /\ ~clients[calls[c].client].errored
  /\ EmitOn(c, "error")

EmitEnd(c) ==
  /\ Live(c)
  /\ clients[calls[c].client].phase \in {"connecting", "ready"}
  /\ EmitOn(c, "end")

EmitClose(c) ==
  /\ Live(c)
  /\ clients[calls[c].client].phase # "closed"
  /\ EmitOn(c, "close")

\* a slip: the flag is pushed when isPrivate is false
CommandOfInverted(call) ==
  IF call.kind = "sign"
  THEN <<"sign", "-ttl", "5m">>
  ELSE IF call.isPrivate THEN <<>> ELSE <<"-private">>

\* the command line of the call
CommandOf(call) ==
  IF call.kind = "sign"
  THEN <<"sign", "-ttl", "5m">>
  ELSE IF call.isPrivate THEN <<"-private">> ELSE <<>>

\* await connectClient(...) resumes: on the client, exec; on a rejection, throw
AwaitConnect(c) ==
  /\ Live(c)
  /\ calls[c].pc = "connecting"
  /\ LET s == calls[c].client
     IN  /\ clients[s].promise.state # "pending"
         /\ IF clients[s].promise.state = "fulfilled"
            THEN /\ clients' = [clients EXCEPT
                      ![s].chan = "requested",
                      ![s].command = JoinSpace(CommandOf(calls[c]))]
                 /\ calls' = [calls EXCEPT ![c].pc = "execing"]
            ELSE /\ calls' = [calls EXCEPT
                      ![c].pc = "threw",
                      ![c].error = clients[s].promise.reason]
                 /\ clients' = [clients EXCEPT ![s] = Retire(@)]
  /\ UNCHANGED <<clientOptions, uncaught, input, outputs>>

\* the callback of client.exec runs
ExecCallback(c, err) ==
  /\ Live(c)
  /\ LET s == calls[c].client
     IN  /\ clients[s].chan = "requested"
         /\ err \/ clients[s].phase = "ready"
         /\ clients' = [clients EXCEPT ![s] =
              IF err
              THEN [@ EXCEPT !.chan = "refused",
                             !.exec = reject(@, "exec failed")]
              ELSE [@ EXCEPT !.chan = "open",
                             !.stdin = Some(calls[c].content)]]
  /\ UNCHANGED <<clientOptions, calls, uncaught, input, outputs>>

\* a slip: unshift in the place of push
onDataUnshift(data, chunk) == <<chunk>> \o data

\* channel.on("data", (chunk) => { data.push(chunk) })
onData(data, chunk) == Append(data, chunk)

ChannelData(c, chunk) ==
  /\ Live(c)
  /\ LET s == calls[c].client
     IN  /\ clients[s].chan = "open"
         /\ clients[s].phase = "ready"
         /\ Len(clients[s].arrived) < MaxChunks
         /\ clients' = [clients EXCEPT
              ![s].arrived = Append(@, chunk),
              ![s].data = onData(@, chunk)]
  /\ UNCHANGED <<clientOptions, calls, uncaught, input, outputs>>

\* channel.on("close", () => { resolve(data.map(...).join("")) })
ChannelClose(c) ==
  /\ Live(c)
  /\ LET s == calls[c].client
     IN  /\ clients[s].chan = "open"
         /\ clients' = [clients EXCEPT
              ![s].chan = "closed",
              ![s].exec = resolve(@, JoinChunks(clients[s].data))]
  /\ UNCHANGED <<clientOptions, calls, uncaught, input, outputs>>

\* await writeWithCommand(...) resumes: on a rejection the call throws as it
\* stands; on the transcript, client.destroy() and the rest of the call
AwaitExec(c) ==
  /\ Live(c)
  /\ calls[c].pc = "execing"
  /\ LET s == calls[c].client
         response == clients[s].exec.value
     IN  /\ clients[s].exec.state # "pending"
         /\ IF clients[s].exec.state = "rejected"
            THEN /\ calls' = [calls EXCEPT
                      ![c].pc = "threw",
                      ![c].error = clients[s].exec.reason]
                 /\ clients' = [clients EXCEPT ![s] = Retire(@)]
            ELSE /\ clients' = [clients EXCEPT
                      ![s] = Retire([@ EXCEPT !.destroyed = TRUE])]
                 /\ calls' = [calls EXCEPT ![c] =
                      IF calls[c].kind = "sign"
                      THEN [@ EXCEPT !.pc = "returned", !.text = response]
                      ELSE LET r == parsed[response]
                           IN  [@ EXCEPT
                                  !.pc = IF r.snip = null THEN "threw"
                                         ELSE "returned",
                                  !.snip = r.snip,
                                  !.error = r.error]]
  /\ UNCHANGED <<clientOptions, uncaught, input, outputs>>

\* new Snips(clientOptions): the defaults, and the key when one is given
Init ==
  /\ clientOptions \in
       {[host |-> "snips.sh",
         username |-> <<"u", "b", "u", "n", "t", "u">>,
         privateKey |-> k] : k \in {"undefined", "configured"}}
  /\ calls = <<>>
  /\ clients = <<>>
  /\ uncaught = FALSE
  /\ input = <<>>
  /\ outputs = <<>>

Next ==
  \/ CallSetup
  \/ \E content \in Contents, isPrivate \in BOOLEAN :
       CallUpload(content, isPrivate)
  \/ \E u \in 1..Len(calls) : CallSign(u)
  \/ \E c \in 1..Len(calls) : KeyGenerated(c)
  \/ \E c \in 1..Len(calls) : EmitReady(c)
  \/ \E c \in 1..Len(calls) : EmitError(c)
  \/ \E c \in 1..Len(calls) : EmitEnd(c)
  \/ \E c \in 1..Len(calls) : EmitClose(c)
  \/ \E c \in 1..Len(calls) : AwaitConnect(c)
  \/ \E c \in 1..Len(calls), err \in BOOLEAN : ExecCallback(c, err)
  \/ \E c \in 1..Len(calls), chunk \in ChunkPool : ChannelData(c, chunk)
  \/ \E c \in 1..Len(calls) : ChannelClose(c)
  \/ \E c \in 1..Len(calls) : AwaitExec(c)

Spec == Init /\ [][Next]_vars

(***************************************************************************)
(* stripAnsi on its own: any text over SanitizeAlphabet of at most MaxText *)
(* characters, sanitized and sanitized again.                              *)
(***************************************************************************)
SanitizeAlphabet == {"ESC", "[", ";", "0", "m", "a"}

MaxText == 4

MaxStrips == 2

InitSanitize ==
  /\ clientOptions = [host |-> "snips.sh",
                      username |-> <<"u", "b", "u", "n", "t", "u">>,
                      privateKey |-> "undefined"]
  /\ calls = <<>>
  /\ clients = <<>>
  /\ uncaught = FALSE
  /\ input \in UNION {[1..n -> SanitizeAlphabet] : n \in 0..MaxText}
  /\ outputs = <<>>

\* stripAnsi applied to the input, then to what it returned
Sanitize ==
  /\ Len(outputs) < MaxStrips
  /\ outputs' = Append(outputs,
       stripAnsi(IF outputs = <<>> THEN input ELSE outputs[Len(outputs)]))
  /\ UNCHANGED <<clientOptions, calls, clients, uncaught, input>>

NextSanitize == Sanitize

SpecSanitize == InitSanitize /\ [][NextSanitize]_vars

(***************************************************************************)
(* The validation of upload on its own: any transcript put together from   *)
(* the lines the service prints, each one there, missing or malformed,     *)
(* and what upload makes of it once the channel has delivered it.          *)
(***************************************************************************)
\* the id line: as printed, or with a token of five characters
IdLine(choice) ==
  IF choice = "none" THEN <<>>
  ELSE IF choice = "short"
  THEN <<"ESC", "[", "9", "0", "m", "i", "d", ":", " ", "ESC", "[", "3",
         "7", "m", "d", "F", "O", "P", "G", "ESC", "[", "0", "m", "\n">>
  ELSE <<"ESC", "[", "9", "0", "m", "i", "d", ":", " ", "ESC", "[", "3",
         "7", "m", "d", "F", "O", "P", "G", "g", "A", "E", "n", "Z",
         "ESC", "[", "0", "m", "\n">>

\* the size: as printed, or of an empty snip
SizeLine(choice) ==
  IF choice = "none" THEN <<>>
  ELSE IF choice = "zero"
  THEN <<"s", "i", "z", "e", ":", " ", "ESC", "[", "3", "7", "m", "0",
         " ", "B", "ESC", "[", "0", "m">>
  ELSE <<"s", "i", "z", "e", ":", " ", "ESC", "[", "3", "7", "m", "6",
         "3", " ", "B", "ESC", "[", "0", "m">>

TypeLine(choice) ==
  IF choice = "none" THEN <<>>
  ELSE <<" ", "t", "y", "p", "e", ":", " ", "ESC", "[", "3", "7", "m",
         "p", "l", "a", "i", "n", "t", "e", "x", "t", "ESC", "[", "0",
         "m">>

\* the visibility: public, private, or a word that is neither
VisibilityLine(choice) ==
  IF choice = "none" THEN <<>>
  ELSE IF choice = "public"
  THEN <<" ", "v", "i", "s", "i", "b", "i", "l", "i", "t", "y", ":",
         " ", "ESC", "[", "3", "7", "m", "p", "u", "b", "l", "i", "c",
         "ESC", "[", "0", "m", "\n">>
  ELSE IF choice = "private"
  THEN <<" ", "v", "i", "s", "i", "b", "i", "l", "i", "t", "y", ":",
         " ", "ESC", "[", "3", "7", "m", "p", "r", "i", "v", "a", "t",
         "e", "ESC", "[", "0", "m", "\n">>
  ELSE <<" ", "v", "i", "s", "i", "b", "i", "l", "i", "t", "y", ":",
         " ", "ESC", "[", "3", "7", "m", "u", "n", "l", "i", "s", "t",
         "e", "d", "ESC", "[", "0", "m", "\n">>

SshLine(choice) ==
  IF choice = "none" THEN <<>>
  ELSE <<"s", "s", "h", " ", "f", ":", "d", "F", "O", "P", "G", "g",
         "A", "E", "n", "Z", "@", "s", "n", "i", "p", "s", ".", "s",
         "h", "\n">>

\* the URL line: of snips.sh, or of a self-hosted instance
UrlOf(choice) ==
  IF choice = "none" THEN <<>>
  ELSE IF choice = "hosted"
  THEN <<"ESC", "[", "4", "m", "h", "t", "t", "p", "s", ":", "/", "/",
         "s", "n", "i", "p", "s", ".", "e", "x", "a", "m", "p", "l",
         "e", ".", "c", "o", "m", "/", "f", "/", "d", "F", "O", "P",
         "G", "g", "A", "E", "n", "Z", "ESC", "[", "0", "m", "\n">>
  ELSE <<"ESC", "[", "4", "m", "h", "t", "t", "p", "s", ":", "/", "/",
         "s", "n", "i", "p", "s", ".", "s", "h", "/", "f", "/", "d",
         "F", "O", "P", "G", "g", "A", "E", "n", "Z", "ESC", "[", "0",
         "m", "\n">>

\* the transcript with the given lines
Transcript(lines) ==
  IdLine(lines.id) \o SizeLine(lines.size) \o TypeLine(lines.type)
    \o VisibilityLine(lines.visibility) \o SshLine(lines.ssh)
    \o UrlOf(lines.url)

LineChoices ==
  [id : {"none", "short", "ok"},
   size : {"none", "zero", "ok"},
   type : {"none", "ok"},
   visibility : {"none", "public", "private", "unlisted"},
   ssh : {"none", "ok"},
   url : {"none", "hosted", "ok"}]

InitParse ==
  /\ clientOptions = [host |-> "snips.sh",
                      username |-> <<"u", "b", "u", "n", "t", "u">>,
                      privateKey |-> "configured"]
  /\ calls = <<>>
  /\ clients = <<>>
  /\ uncaught = FALSE
  /\ input \in LineChoices
  /\ outputs = <<>>

\* upload resumes on the transcript of the input's lines
Validate ==
  /\ outputs = <<>>
  /\ outputs' = <<parse(Transcript(input))>>
  /\ UNCHANGED <<clientOptions, calls, clients, uncaught, input>>

NextParse == Validate

SpecParse == InitParse /\ [][NextParse]_vars

(***************************************************************************)
(* extractUrl on its own: any text of at most MaxTokens pieces, each a     *)
(* scheme, a letter, a blank or a line break.                              *)
(***************************************************************************)
UrlTokens ==
  {<<"h", "t", "t", "p", ":", "/", "/">>,
   <<"h", "t", "t", "p", "s", ":", "/", "/">>,
   <<"a">>, <<" ">>, <<"\n">>}

MaxTokens == 5

RECURSIVE Flatten(_)
\* the text made of the pieces
Flatten(pieces) ==
  IF pieces = <<>> THEN <<>> ELSE Head(pieces) \o Flatten(Tail(pieces))

InitUrl ==
  /\ clientOptions = [host |-> "snips.sh",
                      username |-> <<"u", "b", "u", "n", "t", "u">>,
                      privateKey |-> "configured"]
  /\ calls = <<>>
  /\ clients = <<>>
  /\ uncaught = FALSE
  /\ input \in {Flatten(pieces) :
                  pieces \in UNION {[1..n -> UrlTokens] : n \in 0..MaxTokens}}
  /\ outputs = <<>>

\* extractUrl applied to the input
ExtractUrl ==
  /\ outputs = <<>>
  /\ outputs' = <<extractUrl(input)>>
  /\ UNCHANGED <<clientOptions, calls, clients, uncaught, input>>

NextUrl == ExtractUrl

SpecUrl == InitUrl /\ [][NextUrl]_vars

(***************************************************************************)
(* One upload call and its session, with the scheduling of the program:    *)
(* generateKeyPair completes, and a call whose awaited promise has         *)
(* settled resumes.  What the session and the channel emit, and when, is   *)
(* up to the remote end.                                                   *)
(***************************************************************************)
NextLive ==
  \/ calls = <<>> /\ \E content \in Contents, isPrivate \in BOOLEAN :
                        CallUpload(content, isPrivate)
  \/ \E c \in 1..Len(calls) : KeyGenerated(c)
  \/ \E c \in 1..Len(calls) : EmitReady(c)
  \/ \E c \in 1..Len(calls) : EmitError(c)
  \/ \E c \in 1..Len(calls) : EmitEnd(c)
  \/ \E c \in 1..Len(calls) : EmitClose(c)
  \/ \E c \in 1..Len(calls) : AwaitConnect(c)
  \/ \E c \in 1..Len(calls), err \in BOOLEAN : ExecCallback(c, err)
  \/ \E c \in 1..Len(calls), chunk \in ChunkPool : ChannelData(c, chunk)
  \/ \E c \in 1..Len(calls) : ChannelClose(c)
  \/ \E c \in 1..Len(calls) : AwaitExec(c)

FairLive ==
  /\ WF_vars(\E c \in 1..Len(calls) : KeyGenerated(c))
  /\ WF_vars(\E c \in 1..Len(calls) : AwaitConnect(c))
  /\ WF_vars(\E c \in 1..Len(calls) : AwaitExec(c))

SpecLive == Init /\ [][NextLive]_vars /\ FairLive

(***************************************************************************)
(* The claims.                                                             *)
(***************************************************************************)
Calls == 1..Len(calls)

LiveCalls == {c \in Calls : calls[c].pc \in {"connecting", "execing"}}

ClientOf(c) == clients[calls[c].client]

\* C1: every Snip that upload returns has a url exactly when its visibility
\* is public, and a call that threw returned no Snip.
C1_UrlIffPublic ==
  \A c \in Calls :
    /\ calls[c].snip # null =>
         /\ calls[c].pc = "returned"
         /\ calls[c].snip[1].url # null
              <=> calls[c].snip[1].visibility = Some(public)
    /\ calls[c].pc = "threw" => calls[c].snip = null

\* C1, its case: one upload returned a public Snip with its url, and one
\* got a private transcript with a URL in it and threw
C1_Witness ==
  /\ \E c \in Calls :
       /\ calls[c].snip # null
       /\ calls[c].snip[1].url # null
       /\ calls[c].snip[1].visibility = Some(public)
  /\ \E c \in Calls :
       /\ calls[c].pc = "threw"
       /\ calls[c].error = "Visibility is private but found URL"

\* C2: at most one key generation is in flight at any time.
C2_SingleFlight ==
  Cardinality({c \in Calls : calls[c].pc = "generating"}) <= 1

\* C3: once the private key of the instance is set, no step of any call
\* changes it.
C3_KeyStable ==
  [][clientOptions.privateKey # "undefined"
       => clientOptions'.privateKey = clientOptions.privateKey]_vars

\* what the first event of a session makes of the connect attempt
SettledBy(e) ==
  IF e = "ready" THEN [state |-> "fulfilled", value |-> <<"client">>,
                       reason |-> ""]
  ELSE [state |-> "rejected", value |-> <<>>,
        reason |-> IF e = "error" THEN "error"
                   ELSE IF e = "end" THEN "Client ended unexpectedly"
                   ELSE "Client closed unexpectedly"]

\* C4: a connect attempt is pending until the first event of its session,
\* and from then on it is what that first event made it: fulfilled with the
\* client when the event is 'ready', rejected when it is error, end or
\* close, whatever events come later.
C4_SettledByFirstEvent ==
  \A c \in LiveCalls :
    ClientOf(c).promise =
      IF ClientOf(c).emitted = <<>> THEN Pending
      ELSE SettledBy(Head(ClientOf(c).emitted))

\* C4, its case: 'error' came first and 'ready' after it, on an attempt
\* that the call has not resumed from yet
C4_Witness ==
  \E c \in LiveCalls :
    /\ Len(ClientOf(c).emitted) >= 2
    /\ Head(ClientOf(c).emitted) = "error"
    /\ ClientOf(c).emitted[2] = "ready"

ConnectionErrors ==
  {"error", "Client ended unexpectedly", "Client closed unexpectedly"}

\* C6: no 'error' event is left unhandled, and a call whose session had an
\* error, end or close while its channel was requested or open settles by
\* throwing that connection error.
C6_EventsSurface ==
  [][/\ ~uncaught'
     /\ \A c \in LiveCalls :
          (ClientOf(c).swallowed /\ calls'[c].pc \in {"returned", "threw"})
            => /\ calls'[c].pc = "threw"
               /\ calls'[c].error \in ConnectionErrors]_vars

\* C7: a session has an exec requested on it only after it emitted 'ready'
\* and the connect attempt resolved, and it is destroyed only with its
\* channel closed.
C7_ReadyExecCloseDestroy ==
  /\ \A c \in LiveCalls :
       ClientOf(c).chan # "none"
         => /\ ClientOf(c).promise.state = "fulfilled"
            /\ Head(ClientOf(c).emitted) = "ready"
  /\ \A s \in 1..Len(clients) :
       clients[s].destroyed => clients[s].chan = "closed"

\* C7, its case: an upload and a sign each destroyed their session
C7_Witness ==
  /\ \E c \in Calls :
       /\ calls[c].kind = "upload"
       /\ calls[c].client # 0
       /\ clients[calls[c].client].destroyed
       /\ clients[calls[c].client].chan = "closed"
  /\ \E c \in Calls :
       /\ calls[c].kind = "sign"
       /\ calls[c].client # 0
       /\ clients[calls[c].client].destroyed
       /\ clients[calls[c].client].chan = "closed"

\* C8: when a call has settled, the session it connected (the one it
\* requested an exec on) is destroyed.
C8_ReleasedWhenSettled ==
  \A c \in Calls :
    (Settled(c) /\ calls[c].client # 0
       /\ clients[calls[c].client].chan # "none")
      => clients[calls[c].client].destroyed

\* the first n of the chunks, each decoded, one after the other
RECURSIVE InOrder(_, _)
InOrder(chunks, n) ==
  IF n = 0 THEN <<>> ELSE InOrder(chunks, n - 1) \o toString(chunks[n])

\* C9: writeWithCommand resolves only with the channel closed, and with the
\* chunks that arrived, each decoded, in the order of their arrival.
C9_ConcatenatedInArrivalOrder ==
  \A c \in LiveCalls :
    /\ ClientOf(c).exec.state = "fulfilled"
         => /\ ClientOf(c).chan = "closed"
            /\ ClientOf(c).exec.value
                 = InOrder(ClientOf(c).arrived, Len(ClientOf(c).arrived))
    /\ ClientOf(c).chan = "closed" => ClientOf(c).exec.state = "fulfilled"

\* C9, its case: resolved with two chunks, the URL line having arrived first
C9_Witness ==
  \E c \in LiveCalls :
    /\ ClientOf(c).exec.state = "fulfilled"
    /\ ClientOf(c).arrived = <<"UrlLine", "HeadPublic">>

\* C10: stripAnsi applied to what stripAnsi returned changes nothing.
C10_Idempotent ==
  Len(outputs) >= 2 => outputs[2] = outputs[1]

\* which of the four required fields the input lacks or holds malformed,
\* in the sequence id, size, type, visibility
Lacking(lines) ==
  <<lines.id # "ok", lines.size = "none", lines.type = "none",
    lines.visibility \notin {"public", "private"}>>

FieldMessages ==
  <<"Failed to extract ID from response",
    "Failed to extract size from response",
    "Failed to extract type from response",
    "Failed to extract visibility from response">>

FieldsValid(lines) ==
  /\ lines.id = "ok" /\ lines.size # "none" /\ lines.type = "ok"
  /\ lines.visibility \in {"public", "private"}
  /\ lines.url # "none" <=> lines.visibility = "public"

\* C12: upload throws exactly when one of id, size, type, visibility is
\* missing or malformed or the url does not match the visibility; every
\* other transcript yields a Snip, with or without an ssh line.  (Stated
\* for the transcripts with a size other than 0, which is the case of C18.)
C12_SnipIffFieldsValid ==
  (outputs # <<>> /\ input.size # "zero") =>
    (outputs[1].snip # null <=> FieldsValid(input))

\* C13: the id of every Snip returned is ten characters of [A-Za-z0-9_-],
\* and the url of a public one is "https://snips.sh/f/" followed by the id.
C13_IdAndUrlShape ==
  (outputs # <<>> /\ outputs[1].snip # null) =>
    LET snip == outputs[1].snip[1]
    IN  /\ Len(snip.id[1]) = 10
        /\ \A k \in 1..10 : snip.id[1][k] \in IdChar
        /\ snip.visibility = Some(public) =>
              snip.url = Some(<<"h", "t", "t", "p", "s", ":", "/", "/",
                                "s", "n", "i", "p", "s", ".", "s", "h",
                                "/", "f", "/">>
                                \o snip.id[1])

\* C18: a transcript holding "size: <n> <U>", 0 included, has its size: value
\* and unit come together, the size check of upload passes, and the Snip of
\* an otherwise valid transcript has n as its size.value.
C18_SizePresentWithZero ==
  (outputs # <<>> /\ input.size # "none") =>
    LET n == IF input.size = "zero" THEN 0 ELSE 63
        size == extractSize(stripAnsi(Transcript(input)))
    IN  /\ size = [value |-> Some(n), unit |-> Some(<<"B">>)]
        /\ outputs[1].error # "Failed to extract size from response"
        /\ (FieldsValid(input) /\ input.ssh = "ok") =>
              /\ outputs[1].snip # null
              /\ outputs[1].snip[1].size.value = Some(n)

\* the length of the scheme that stands in text at position i, 0 for none
SchemeAt(text, i) ==
  IF LitAt(text, <<"h", "t", "t", "p", "s", ":", "/", "/">>, i) THEN 8
  ELSE IF LitAt(text, <<"h", "t", "t", "p", ":", "/", "/">>, i) THEN 7
  ELSE 0

\* the positions of text where a URL starts: a scheme with a character
\* after it that is not white space
UrlStarts(text) ==
  {i \in 1..Len(text) :
     /\ SchemeAt(text, i) # 0
     /\ i + SchemeAt(text, i) <= Len(text)
     /\ text[i + SchemeAt(text, i)] \notin WhiteSpace}

\* C17: extractUrl returns the first URL of the text, from left to right:
\* it starts at the leftmost position where a scheme is followed by a
\* character that is not white space and runs up to the next white space
\* or the end, whatever URLs follow; it returns null when no URL starts
\* anywhere, as in a text with no scheme in it.
C17_FirstUrl ==
  outputs # <<>> =>
    IF UrlStarts(input) = {}
    THEN outputs[1] = null
    ELSE LET i0 == Min(UrlStarts(input))
             url == outputs[1][1]
             after == i0 + Len(url)
         IN  /\ outputs[1] # null
             /\ url = SubSeq(input, i0, after - 1)
             /\ Len(url) > SchemeAt(input, i0)
             /\ \A k \in 1..Len(url) : url[k] \notin WhiteSpace
             /\ after <= Len(input) => input[after] \in WhiteSpace

\* C17, its case: of two URLs with a blank between them the first was
\* returned
C17_Witness ==
  /\ input = <<"h", "t", "t", "p", "s", ":", "/", "/", "a", " ", "h",
               "t", "t", "p", ":", "/", "/", "a">>
  /\ outputs = <<Some(<<"h", "t", "t", "p", "s", ":", "/", "/", "a">>)>>

\* the calls of the given kind that have connected
Connected(kind) ==
  {c \in Calls : calls[c].kind = kind /\ calls[c].client # 0}

\* C14: the session of a sign call has the private key of the session that
\* uploaded its snip, the username "f:" followed by the snip's id, and the
\* host as configured.
C14_SameIdentity ==
  \A s \in Connected("sign") :
    LET u == calls[s].of
    IN  /\ ClientOf(s).config.privateKey = ClientOf(u).config.privateKey
        /\ ClientOf(s).config.username
             = <<"f", ":">> \o calls[u].snip[1].id[1]
        /\ ClientOf(s).config.host = ClientOf(u).config.host

C16_FlagAndContent ==
  \A c \in Connected("upload") :
    /\ ClientOf(c).chan # "none" =>
         ClientOf(c).command = IF calls[c].isPrivate THEN "-private" ELSE ""
    /\ ClientOf(c).stdin = IF ClientOf(c).chan \in {"open", "closed"}
                           THEN Some(calls[c].content)
                           ELSE null

\* C16, its case: a private upload and one that is not have both had their
\* channel opened
C16_Witness ==
  \E c, d \in Connected("upload") :
    /\ calls[c].isPrivate /\ ~calls[d].isPrivate
    /\ ClientOf(c).chan \in {"open", "closed"}
    /\ ClientOf(d).chan \in {"open", "closed"}

\* C19: a sign call runs "sign -ttl 5m" with empty input and returns the
\* text the channel delivered as it is; the config of the instance keeps
\* its username and host through every call, and every upload connects
\* with them.
C19_SignLeavesConfig ==
  /\ [](/\ clientOptions.username = <<"u", "b", "u", "n", "t", "u">>
        /\ clientOptions.host = "snips.sh"
        /\ \A c \in Connected("upload") :
             /\ ClientOf(c).config.username = <<"u", "b", "u", "n", "t", "u">>
             /\ ClientOf(c).config.host = "snips.sh"
        /\ \A s \in Connected("sign") :
             /\ ClientOf(s).chan # "none" =>
                  ClientOf(s).command = "sign -ttl 5m"
             /\ ClientOf(s).stdin = IF ClientOf(s).chan \in {"open", "closed"}
                                    THEN Some("") ELSE null)
  /\ [][\A s \in Connected("sign") :
          (~Settled(s) /\ calls'[s].pc = "returned") =>
            /\ ClientOf(s).exec.state = "fulfilled"
            /\ calls'[s].text = ClientOf(s).exec.value
            /\ calls'[s].text = JoinChunks(ClientOf(s).arrived)]_vars

\* C19, its case: a sign call returned the two chunks its channel
\* delivered, and an upload made after it has connected
C19_Witness ==
  \E s \in Connected("sign"), c \in Connected("upload") :
    /\ s < c
    /\ calls[s].pc = "returned"
    /\ calls[s].text = JoinChunks(<<"HeadPublic", "UrlLine">>)

\* the upload call of SpecLive has been made and has not settled
Pending1 == calls # <<>> /\ ~Settled(1)

\* it awaits readiness: connectClient's promise is pending
AwaitingReady ==
  /\ Pending1 /\ calls[1].pc = "connecting"
  /\ ClientOf(1).promise.state = "pending"

\* it awaits the callback of exec
AwaitingOpen ==
  Pending1 /\ calls[1].pc = "execing" /\ ClientOf(1).chan = "requested"

\* it awaits the close of the channel
AwaitingClose ==
  Pending1 /\ calls[1].pc = "execing" /\ ClientOf(1).chan = "open"

\* the session became ready: connectClient's promise is fulfilled
Ready1 ==
  /\ Pending1 /\ calls[1].client # 0
  /\ ClientOf(1).promise.state = "fulfilled"

\* the callback of exec has run
Acked1 ==
  /\ calls # <<>> /\ calls[1].client # 0
  /\ ClientOf(1).chan \in {"open", "refused", "closed"}

\* C20: an upload call is never left pending anywhere but awaiting
\* readiness, the opening of the channel or its close: whenever it is
\* pending and neither generateKeyPair nor a resumption is due, it is at one
\* of the three; and if the session emits an event, the callback of exec
\* runs once the session is ready, and the channel closes once it is open,
\* then the call settles.
C20_SettlesWhenRemoteActs ==
  /\ [](( /\ Pending1
          /\ ~ENABLED <<\E c \in 1..Len(calls) : KeyGenerated(c)>>_vars
          /\ ~ENABLED <<\E c \in 1..Len(calls) : AwaitConnect(c)>>_vars
          /\ ~ENABLED <<\E c \in 1..Len(calls) : AwaitExec(c)>>_vars)
        => (AwaitingReady \/ AwaitingOpen \/ AwaitingClose))
  /\ ( /\ AwaitingReady ~> ~AwaitingReady
       /\ Ready1 ~> Acked1
       /\ AwaitingClose ~> ~AwaitingClose)
     => (Pending1 ~> ~Pending1)

=============================================================================
